---- MODULE Spec2Model ----
(***************************************************************************)
(* A model of the sentiment-analysis service: the history store            *)
(* (DataManager), the analyzer (SentimentAnalyzer), the text cleaner       *)
(* (TextPreprocessor) and the HTTP handlers that tie them together.        *)
(*                                                                         *)
(* Texts are sequences of one-character strings.  Scores are integers in   *)
(* units of 10^-5, values rounded to 4 decimals are integers in units of   *)
(* 10^-4.  Wall-clock time is the counter clock; a timestamp is the value  *)
(* of the clock when the record was stamped.                               *)
(*                                                                         *)
(* Record constructors list their fields in the order TLC keeps them in    *)
(* (that of each name's first appearance in the module), so that no worker *)
(* has to reorder a record that another worker is reading.                 *)
(***************************************************************************)
EXTENDS Integers, Sequences, FiniteSets, TLC

VARIABLES
    history,        \* DataManager.history: the in-memory list of records
    history_file,   \* data/analysis_history.json
    stats_file,     \* data/statistics.json
    clock,          \* wall clock read by datetime.now()
    last,           \* what the last call did and answered
    req             \* the requests in flight in the threaded server

vars == <<history, history_file, stats_file, clock, last, req>>

----------------------------------------------------------------------------
(* Bounds of the model *)

\* appends the service specification performs
MaxClock == 2
\* appends the retention specification performs beyond the cap
MaxOverCap == 2
\* largest limit asked of get_recent_analyses
MaxLimit == 2
\* requests the threaded server handles at once
NumRequests == 2

(* Program constants *)

\* data_loader.py:51-52, the retention cap
HistoryCap == 1000
\* model.py:55, the classifier's input limit
TruncateAt == 500
\* main.py:91, the single-text cap
MaxTextLen == 5000

----------------------------------------------------------------------------
(* Python's list and string primitives *)

\* s[start:] for a list or string s: a negative start counts from the end
PySliceFrom(s, start) ==
    LET n  == Len(s)
        lo == IF start < 0
              THEN (IF start + n < 0 THEN 0 ELSE start + n)
              ELSE (IF start > n THEN n ELSE start)
    IN  SubSeq(s, lo + 1, n)

\* s[:stop] for a non-negative stop
PySliceTo(s, stop) == SubSeq(s, 1, IF stop > Len(s) THEN Len(s) ELSE stop)

\* d[key] = value on a dict d
DictSet(d, key, value) == (key :> value) @@ d

\* key in d
HasKey(d, key) == key \in DOMAIN d

----------------------------------------------------------------------------
(* Files.  A file is absent, written (data holds the JSON text, one object *)
(* per element, an object a set of key/value pairs) or corrupt (truncated  *)
(* by open(.., 'w') and not, or not wholly, written).                      *)

AbsentFile == [state |-> "absent", data |-> <<>>]
CorruptFile == [state |-> "corrupt", data |-> <<>>]

\* the JSON object of a dict
JsonObject(d) == {<<k, d[k]>> : k \in DOMAIN d}

\* the dict of a JSON object
JsonDict(obj) ==
    [k \in {p[1] : p \in obj} |-> (CHOOSE p \in obj : p[1] = k)[2]]

\* json.dump(list, f, ensure_ascii=False, indent=2)
json_dump(list) == [i \in 1..Len(list) |-> JsonObject(list[i])]

\* json.load(f) of a written history file
json_load(data) == [i \in 1..Len(data) |-> JsonDict(data[i])]

\* outcomes of writing a file: done, open() raised, or the write raised
\* after open() had truncated the file
WriteOutcomes == {"ok", "open_fail", "write_fail"}

\* a write of the list as it was before the last append
WriteJsonListStale(file, list, io) ==
    CASE io = "ok"         -> [state |-> "written",
                               data  |-> json_dump(SubSeq(list, 1, Len(list) - 1))]
      [] io = "open_fail"  -> file
      [] io = "write_fail" -> CorruptFile

\* with open(path, 'w') as f: json.dump(list, f)   inside try/except
WriteJsonList(file, list, io) ==
    CASE io = "ok"         -> [state |-> "written", data |-> json_dump(list)]
      [] io = "open_fail"  -> file
      [] io = "write_fail" -> CorruptFile

\* os.path.exists(path)
Exists(file) == file.state # "absent"

----------------------------------------------------------------------------
(* DataManager *)

\* _load_history: an unparseable file is swallowed
_load_history(file) ==
    IF Exists(file)
    THEN (IF file.state = "written" THEN json_load(file.data) ELSE <<>>)
    ELSE <<>>

\* a trim that keeps the first 1000 records instead of the last
TrimKeepsOldest(h) ==
    IF Len(h) > HistoryCap THEN PySliceTo(h, HistoryCap) ELSE h

\* self.history = self.history[-1000:] when longer than the cap
TrimHistory(h) ==
    IF Len(h) > HistoryCap THEN PySliceFrom(h, -HistoryCap) ELSE h

\* a save_analysis whose stamp was read once, when the manager was built
save_analysis_stamped_once(h, file, result, now, io) ==
    LET stamped == DictSet(result, "timestamp", 0)
        kept    == TrimHistory(Append(h, stamped))
    IN  [history |-> kept, file |-> WriteJsonList(file, kept, io),
         result |-> stamped]

\* save_analysis: stamp, append, trim, then write the whole list; a failed
\* write is printed and swallowed
save_analysis(h, file, result, now, io) ==
    LET stamped == DictSet(result, "timestamp", now)
        kept    == TrimHistory(Append(h, stamped))
    IN  [history |-> kept, file |-> WriteJsonList(file, kept, io),
         result |-> stamped]

\* get_recent_analyses
get_recent_analyses(h, limit) ==
    IF h # <<>> THEN PySliceFrom(h, -limit) ELSE <<>>

\* outcomes of os.remove on an existing file
RemoveOutcomes == {"ok", "fail"}

\* clear_history: os.remove is not inside a try, so its failure propagates
\* after the list was emptied
clear_history(h, file, io) ==
    IF Exists(file)
    THEN (IF io = "ok"
          THEN [history |-> <<>>, file |-> AbsentFile, raised |-> FALSE]
          ELSE [history |-> <<>>, file |-> file, raised |-> TRUE])
    ELSE [history |-> <<>>, file |-> file, raised |-> FALSE]

----------------------------------------------------------------------------
(* Statistics.  Rounded values are integers: a percentage and the star     *)
(* average in hundredths, the confidence average in units of 10^-4, the    *)
(* processing time average in milliseconds.                                *)

\* round(n / d) for d > 0: to the nearest integer, a tie to the even one
RoundDiv(n, d) ==
    LET q == n \div d
        r == n % d
    IN  IF 2 * r < d THEN q
        ELSE IF 2 * r > d THEN q + 1
        ELSE IF q % 2 = 0 THEN q ELSE q + 1

\* 'sentiment' in h, the filter of the valid results
HasSentiment(r) == HasKey(r, "sentiment")
HasStars(r) == HasKey(r, "stars")
HasProcessingTime(r) == HasKey(r, "processing_time")

\* sum(r[key] for r in list)
RECURSIVE SumOf(_, _)
SumOf(list, key) ==
    IF list = <<>> THEN 0 ELSE Head(list)[key] + SumOf(Tail(list), key)

\* [r['sentiment'] for r in list].count(sentiment)
CountSentiment(list, sentiment) ==
    Cardinality({i \in DOMAIN list : list[i].sentiment = sentiment})

\* round(sum / len, digits) if the list is not empty else 0
Average(list, key, scale) ==
    IF list = <<>> THEN 0 ELSE RoundDiv(scale * SumOf(list, key), Len(list))

\* the timestamp of the last record of the whole history
LastRecordTimestamp(h, valid_results) == h[Len(h)].timestamp

\* line 108: valid_results[-1]['timestamp']
LastAnalysis(h, valid_results) == valid_results[Len(valid_results)].timestamp

\* get_statistics: the dict it returns, and whether it reached
\* _save_statistics (the two early returns do not)
get_statistics(h) ==
    LET valid_results == SelectSeq(h, HasSentiment)
        n == Len(valid_results)
    IN  IF h = <<>>
        THEN [saves |-> FALSE,
              stats |-> [total_analyzed |-> 0,
                         message |-> "No hay datos historicos aun"]]
        ELSE IF valid_results = <<>>
        THEN [saves |-> FALSE,
              stats |-> [valid_results |-> 0, total_analyzed |-> Len(h),
                         errors |-> Len(h)]]
        ELSE [saves |-> TRUE,
              stats |->
                [valid_results  |-> n,
                 total_analyzed |-> Len(h),
                 errors         |-> Len(h) - n,
                 sentiments     |->
                   [positive |-> CountSentiment(valid_results, "POSITIVE"),
                    negative |-> CountSentiment(valid_results, "NEGATIVE"),
                    neutral  |-> CountSentiment(valid_results, "NEUTRAL")],
                 percentages    |->
                   [positive |-> RoundDiv(10000 * CountSentiment(valid_results, "POSITIVE"), n),
                    negative |-> RoundDiv(10000 * CountSentiment(valid_results, "NEGATIVE"), n),
                    neutral  |-> RoundDiv(10000 * CountSentiment(valid_results, "NEUTRAL"), n)],
                 average_confidence |-> Average(valid_results, "confidence", 1),
                 average_stars |->
                   Average(SelectSeq(valid_results, HasStars), "stars", 100),
                 average_processing_time |->
                   Average(SelectSeq(valid_results, HasProcessingTime),
                           "processing_time", 1),
                 last_analysis  |-> LastAnalysis(h, valid_results)]]

\* _save_statistics: the write is inside try/except
_save_statistics(file, stats, io) ==
    CASE io = "ok"         -> [state |-> "written", data |-> <<JsonObject(stats)>>]
      [] io = "open_fail"  -> file
      [] io = "write_fail" -> CorruptFile

----------------------------------------------------------------------------
(* Characters and strings *)

UpperCase == <<"A", "B", "C", "D", "E", "F", "G", "H", "I", "J", "K", "L", "M",
               "N", "O", "P", "Q", "R", "S", "T", "U", "V", "W", "X", "Y", "Z">>
LowerCase == <<"a", "b", "c", "d", "e", "f", "g", "h", "i", "j", "k", "l", "m",
               "n", "o", "p", "q", "r", "s", "t", "u", "v", "w", "x", "y", "z">>
Digits == <<"0", "1", "2", "3", "4", "5", "6", "7", "8", "9">>

Range(s) == {s[i] : i \in DOMAIN s}
IndexOf(s, c) == CHOOSE i \in DOMAIN s : s[i] = c

UpperSet == Range(UpperCase)
LowerSet == Range(LowerCase)
DigitSet == Range(Digits)
SpaceSet == {" ", "\t", "\n", "\r", "\f"}
WordSet == UpperSet \cup LowerSet \cup DigitSet \cup {"_"}

\* \s
IsSpace(c) == c \in SpaceSet
\* \w
IsWord(c) == c \in WordSet

LowerChar(c) == IF c \in UpperSet THEN LowerCase[IndexOf(UpperCase, c)] ELSE c
UpperChar(c) == IF c \in LowerSet THEN UpperCase[IndexOf(LowerCase, c)] ELSE c
\* str.lower(), str.upper()
Lower(s) == [i \in 1..Len(s) |-> LowerChar(s[i])]
Upper(s) == [i \in 1..Len(s) |-> UpperChar(s[i])]

\* s.startswith(prefix, at) with at counted from 1
StartsWithAt(s, prefix, at) ==
    /\ at + Len(prefix) - 1 <= Len(s)
    /\ \A i \in 1..Len(prefix) : s[at + i - 1] = prefix[i]

\* sub in s
Contains(s, sub) == \E at \in 1..(Len(s) + 1) : StartsWithAt(s, sub, at)

\* str.strip()
RECURSIVE LStrip(_)
LStrip(s) == IF s # <<>> /\ IsSpace(Head(s)) THEN LStrip(Tail(s)) ELSE s
RECURSIVE RStrip(_)
RStrip(s) ==
    IF s # <<>> /\ IsSpace(s[Len(s)]) THEN RStrip(SubSeq(s, 1, Len(s) - 1)) ELSE s
Strip(s) == RStrip(LStrip(s))

\* s.split()[0]: the first whitespace-delimited token (<<>> when there is none)
RECURSIVE TakeWhileNotSpace(_)
TakeWhileNotSpace(s) ==
    IF s = <<>> \/ IsSpace(Head(s)) THEN <<>>
    ELSE <<Head(s)>> \o TakeWhileNotSpace(Tail(s))
FirstToken(s) == TakeWhileNotSpace(LStrip(s))

\* the value of a string of decimal digits
RECURSIVE DigitsValue(_)
DigitsValue(s) ==
    IF s = <<>> THEN 0
    ELSE 10 * DigitsValue(SubSeq(s, 1, Len(s) - 1)) + (IndexOf(Digits, s[Len(s)]) - 1)

\* int(token): raises ValueError unless token is an optional sign and digits
ParseInt(token) ==
    LET signed == token # <<>> /\ Head(token) \in {"+", "-"}
        body   == IF signed THEN Tail(token) ELSE token
    IN  IF body # <<>> /\ \A i \in DOMAIN body : body[i] \in DigitSet
        THEN [value  |-> IF signed /\ Head(token) = "-"
                         THEN 0 - DigitsValue(body) ELSE DigitsValue(body),
              raised |-> FALSE]
        ELSE [value |-> 0, raised |-> TRUE]

----------------------------------------------------------------------------
(* SentimentAnalyzer *)

STAR == <<"s", "t", "a", "r">>
POSITIVE == <<"P", "O", "S", "I", "T", "I", "V", "E">>
LABEL_1 == <<"L", "A", "B", "E", "L", "_", "1">>

\* canonical fields whose sentiment_score is the rounded score whatever
\* the sentiment is: the sign and the zero of the neutral case are lost
SentimentDataUnsigned(sentiment, emoji, stars, sentiment_score, label, score) ==
    [sentiment       |-> sentiment,
     emoji           |-> emoji,
     stars           |-> stars,
     sentiment_score |-> RoundDiv(score, 10),
     confidence      |-> RoundDiv(score, 10),
     raw_label       |-> label]

\* the canonical fields built from sentiment, emoji, stars and the signed
\* score; confidence and sentiment_score are rounded to 4 decimals
SentimentData(sentiment, emoji, stars, sentiment_score, label, score) ==
    [sentiment       |-> sentiment,
     emoji           |-> emoji,
     stars           |-> stars,
     sentiment_score |-> RoundDiv(sentiment_score, 10),
     confidence      |-> RoundDiv(score, 10),
     raw_label       |-> label]

\* a _process_result whose binary branch compares score >= 0.9
_process_result_at_least(label, score) ==
    IF Contains(Lower(label), STAR)
    THEN LET parsed == ParseInt(FirstToken(label))
             stars  == parsed.value
         IN  IF parsed.raised
             THEN [raised |-> TRUE, error |-> "invalid literal for int()"]
             ELSE [value  |->
                     IF stars <= 2
                     THEN SentimentData("NEGATIVE", "U+1F614", stars, 0 - score, label, score)
                     ELSE IF stars = 3
                     THEN SentimentData("NEUTRAL", "U+1F610", stars, 0, label, score)
                     ELSE SentimentData("POSITIVE", "U+1F60A", stars, score, label, score),
                   raised |-> FALSE]
    ELSE [value  |->
            IF Upper(label) = POSITIVE \/ label = LABEL_1
            THEN SentimentData("POSITIVE", "U+1F60A",
                               IF score >= 90000 THEN 4 ELSE 5, score, label, score)
            ELSE SentimentData("NEGATIVE", "U+1F614",
                               IF score >= 90000 THEN 2 ELSE 1, 0 - score, label, score),
          raised |-> FALSE]

\* _process_result on {'label': label, 'score': score}; int() may raise
_process_result(label, score) ==
    IF Contains(Lower(label), STAR)
    THEN LET parsed == ParseInt(FirstToken(label))
             stars  == parsed.value
         IN  IF parsed.raised
             THEN [raised |-> TRUE, error |-> "invalid literal for int()"]
             ELSE [value  |->
                     IF stars <= 2
                     THEN SentimentData("NEGATIVE", "U+1F614", stars, 0 - score, label, score)
                     ELSE IF stars = 3
                     THEN SentimentData("NEUTRAL", "U+1F610", stars, 0, label, score)
                     ELSE SentimentData("POSITIVE", "U+1F60A", stars, score, label, score),
                   raised |-> FALSE]
    ELSE [value  |->
            IF Upper(label) = POSITIVE \/ label = LABEL_1
            THEN SentimentData("POSITIVE", "U+1F60A",
                               IF score > 90000 THEN 4 ELSE 5, score, label, score)
            ELSE SentimentData("NEGATIVE", "U+1F614",
                               IF score > 90000 THEN 2 ELSE 1, 0 - score, label, score),
          raised |-> FALSE]

\* what self.model(text)[0] does: it raises, or it returns a label and a
\* score; elapsed is the time the call took, in milliseconds
ModelRaises(message, elapsed) ==
    [label |-> <<>>, score |-> 0, error |-> message, elapsed |-> elapsed,
     raises |-> TRUE]
ModelReturns(label, score, elapsed) ==
    [label |-> label, score |-> score, error |-> "", elapsed |-> elapsed,
     raises |-> FALSE]

\* a check that forgets strip()
EmptyTextUnstripped(text) == text = <<>>

\* line 51: not text or len(text.strip()) == 0
EmptyText(text) == text = <<>> \/ Len(Strip(text)) = 0

\* an except branch that leaves the text out
ErrorRecordBare(message, text, elapsed) ==
    [error |-> message, processing_time |-> elapsed]

\* the record of the except branch
ErrorRecord(message, text, elapsed) ==
    [error |-> message, processing_time |-> elapsed, text_original |-> text]

\* an analyze whose try covers only the call of the model: a failure of
\* _process_result leaves the function as an exception
analyze_normalizing_outside_try(text, model) ==
    IF EmptyText(text)
    THEN [raised |-> TRUE, error |-> "El texto no puede estar vacio",
          called_model |-> FALSE]
    ELSE LET text_truncated == IF Len(text) > TruncateAt
                               THEN PySliceTo(text, TruncateAt) ELSE text
             processed == _process_result(model.label, model.score)
         IN  IF ~model.raises /\ processed.raised
             THEN [raised |-> TRUE, error |-> processed.error,
                   called_model |-> TRUE]
             ELSE [value  |->
                     IF model.raises
                     THEN ErrorRecord(model.error, text, model.elapsed)
                     ELSE processed.value @@
                          [processing_time |-> model.elapsed,
                           text_original   |-> text,
                           text_truncated  |-> Len(text) > TruncateAt,
                           text_analyzed   |-> text_truncated,
                           text_length     |-> Len(text)],
                   raised |-> FALSE, called_model |-> TRUE]

\* analyze(text): ValueError on an empty or blank text, otherwise the
\* canonical record, or the error record when the model or _process_result
\* raises
analyze(text, model) ==
    IF EmptyText(text)
    THEN [raised |-> TRUE, error |-> "El texto no puede estar vacio",
          called_model |-> FALSE]
    ELSE LET text_truncated == IF Len(text) > TruncateAt
                               THEN PySliceTo(text, TruncateAt) ELSE text
             processed == _process_result(model.label, model.score)
         IN  [value  |->
                IF model.raises
                THEN ErrorRecord(model.error, text, model.elapsed)
                ELSE IF processed.raised
                THEN ErrorRecord(processed.error, text, model.elapsed)
                ELSE processed.value @@
                     [processing_time |-> model.elapsed,
                      text_original   |-> text,
                      text_truncated  |-> Len(text) > TruncateAt,
                      text_analyzed   |-> text_truncated,
                      text_length     |-> Len(text)],
              raised |-> FALSE, called_model |-> TRUE]

----------------------------------------------------------------------------
(* TextPreprocessor.  A glyph is the sequence of its code points, each one  *)
(* character of a text, written "U+hex".                                   *)

\* self.emoji_dict, in insertion order
emoji_dict ==
    <<
      [glyph |-> <<"U+1F60A">>, word |-> <<"f", "e", "l", "i", "z">>],
      [glyph |-> <<"U+1F603">>, word |-> <<"f", "e", "l", "i", "z">>],
      [glyph |-> <<"U+1F604">>, word |-> <<"m", "u", "y", " ", "f", "e", "l", "i", "z">>],
      [glyph |-> <<"U+1F601">>, word |-> <<"m", "u", "y", " ", "f", "e", "l", "i", "z">>],
      [glyph |-> <<"U+1F60D">>, word |-> <<"a", "m", "o", "r">>],
      [glyph |-> <<"U+2764", "U+FE0F">>, word |-> <<"a", "m", "o", "r">>],
      [glyph |-> <<"U+1F614">>, word |-> <<"t", "r", "i", "s", "t", "e">>],
      [glyph |-> <<"U+1F622">>, word |-> <<"t", "r", "i", "s", "t", "e">>],
      [glyph |-> <<"U+1F62D">>, word |-> <<"m", "u", "y", " ", "t", "r", "i", "s", "t", "e">>],
      [glyph |-> <<"U+1F621">>, word |-> <<"e", "n", "o", "j", "a", "d", "o">>],
      [glyph |-> <<"U+1F620">>, word |-> <<"e", "n", "o", "j", "a", "d", "o">>],
      [glyph |-> <<"U+1F624">>, word |-> <<"f", "r", "u", "s", "t", "r", "a", "d", "o">>],
      [glyph |-> <<"U+1F44D">>, word |-> <<"b", "i", "e", "n">>],
      [glyph |-> <<"U+1F44E">>, word |-> <<"m", "a", "l">>],
      [glyph |-> <<"U+2B50">>, word |-> <<"e", "s", "t", "r", "e", "l", "l", "a">>],
      [glyph |-> <<"U+2728">>, word |-> <<"e", "x", "c", "e", "l", "e", "n", "t", "e">>],
      [glyph |-> <<"U+1F494">>, word |-> <<"d", "e", "c", "e", "p", "c", "i", "o", "n">>],
      [glyph |-> <<"U+1F92E">>, word |-> <<"a", "s", "c", "o">>],
      [glyph |-> <<"U+1F610">>, word |-> <<"n", "e", "u", "t", "r", "a", "l">>],
      [glyph |-> <<"U+1F611">>, word |-> <<"n", "e", "u", "t", "r", "a", "l">>],
      [glyph |-> <<"U+1F644">>, word |-> <<"m", "o", "l", "e", "s", "t", "o">>]
    >>

\* s.replace(old, new) for a non-empty old: every occurrence, left to right
RECURSIVE Replace(_, _, _)
Replace(s, old, new) ==
    IF s = <<>> THEN <<>>
    ELSE IF StartsWithAt(s, old, 1)
    THEN new \o Replace(SubSeq(s, Len(old) + 1, Len(s)), old, new)
    ELSE <<Head(s)>> \o Replace(Tail(s), old, new)

\* _convert_emojis: one replace per table entry, in table order
RECURSIVE ConvertFrom(_, _)
ConvertFrom(text, k) ==
    IF k > Len(emoji_dict) THEN text
    ELSE ConvertFrom(Replace(text, emoji_dict[k].glyph,
                             <<" ">> \o emoji_dict[k].word \o <<" ">>), k + 1)
_convert_emojis(text) == ConvertFrom(text, 1)

\* the characters of the URL pattern's class: letters, digits, the range
\* $-_ and ! * \ ( ) ,
UrlSet ==
    UpperSet \cup LowerSet \cup DigitSet \cup
    {"$", "%", "&", "'", "(", ")", "*", "+", ",", "-", ".", "/", ":", ";",
     "<", "=", ">", "?", "@", "[", "\\", "]", "^", "_", "!"}
IsUrlChar(c) == c \in UrlSet

\* the length of the longest prefix of s whose characters all satisfy the
\* class: IsUrlChar (class "url") or IsWord (class "word")
RECURSIVE RunLength(_, _)
RunLength(s, class) ==
    IF s # <<>> /\ (IF class = "url" THEN IsUrlChar(Head(s)) ELSE IsWord(Head(s)))
    THEN 1 + RunLength(Tail(s), class)
    ELSE 0

HTTP == <<"h", "t", "t", "p">>
SCHEME_SEP == <<":", "/", "/">>

\* the length of the match of the URL pattern at the head of s, 0 for none
UrlMatch(s) ==
    LET head == IF StartsWithAt(s, HTTP \o <<"s">> \o SCHEME_SEP, 1) THEN 8
                ELSE IF StartsWithAt(s, HTTP \o SCHEME_SEP, 1) THEN 7
                ELSE 0
        run  == IF head = 0 THEN 0 ELSE RunLength(SubSeq(s, head + 1, Len(s)), "url")
    IN  IF run = 0 THEN 0 ELSE head + run

\* re.sub(r'http[s]?://(?:...)+', '', text)
RECURSIVE RemoveUrls(_)
RemoveUrls(s) ==
    IF s = <<>> THEN <<>>
    ELSE IF UrlMatch(s) > 0 THEN RemoveUrls(SubSeq(s, UrlMatch(s) + 1, Len(s)))
    ELSE <<Head(s)>> \o RemoveUrls(Tail(s))

\* re.sub(r'@\w+', '', text)
RECURSIVE RemoveMentions(_)
RemoveMentions(s) ==
    IF s = <<>> THEN <<>>
    ELSE IF Head(s) = "@" /\ RunLength(Tail(s), "word") > 0
    THEN RemoveMentions(SubSeq(s, RunLength(Tail(s), "word") + 2, Len(s)))
    ELSE <<Head(s)>> \o RemoveMentions(Tail(s))

\* re.sub(r'#(\w+)', r'\1', text)
RECURSIVE UnwrapHashtags(_)
UnwrapHashtags(s) ==
    IF s = <<>> THEN <<>>
    ELSE IF Head(s) = "#" /\ RunLength(Tail(s), "word") > 0
    THEN LET n == RunLength(Tail(s), "word")
         IN  SubSeq(s, 2, n + 1) \o UnwrapHashtags(SubSeq(s, n + 2, Len(s)))
    ELSE <<Head(s)>> \o UnwrapHashtags(Tail(s))

\* the index of the first ">" after the "<" at the head of s that no line
\* break comes before, 0 when there is none ('.' does not match "\n")
TagEnd(s) ==
    LET ends == {j \in 2..Len(s) :
                   s[j] = ">" /\ \A k \in 2..(j - 1) : s[k] # "\n"}
    IN  IF ends = {} THEN 0 ELSE CHOOSE j \in ends : \A k \in ends : j <= k

\* re.sub(r'<.*?>', '', text)
RECURSIVE RemoveTags(_)
RemoveTags(s) ==
    IF s = <<>> THEN <<>>
    ELSE IF Head(s) = "<" /\ TagEnd(s) > 0
    THEN RemoveTags(SubSeq(s, TagEnd(s) + 1, Len(s)))
    ELSE <<Head(s)>> \o RemoveTags(Tail(s))

\* re.sub(r'\s+', ' ', text)
RECURSIVE CollapseSpaces(_)
CollapseSpaces(s) ==
    IF s = <<>> THEN <<>>
    ELSE IF IsSpace(Head(s))
    THEN <<" ">> \o CollapseSpaces(LStrip(s))
    ELSE <<Head(s)>> \o CollapseSpaces(Tail(s))

\* clean_text
clean_text(text) ==
    IF text = <<>> THEN <<>>
    ELSE Strip(CollapseSpaces(RemoveTags(UnwrapHashtags(
             RemoveMentions(RemoveUrls(_convert_emojis(text)))))))

----------------------------------------------------------------------------
(* The HTTP handlers of main.py *)

NoResult == [none |-> TRUE]

\* the JSON answers of analyze_text
ErrorResponse(status, code, error) ==
    [result |-> NoResult, error |-> error, status |-> status, code |-> code,
     success |-> FALSE]
SuccessResponse(result) ==
    [result |-> result, error |-> "", status |-> 200, code |-> "",
     success |-> TRUE]
NoResponse == ErrorResponse(0, "", "")

\* data.get('preprocess', True): a body without the key reads as TRUE
PreprocessOf(body) == body.preprocess

\* analyze_text, lines 79-101: the early answers for a missing text and a
\* text over the cap, otherwise the text handed to the analyzer
Preprocessed(body) ==
    IF ~body.has_text
    THEN [text |-> <<>>, rejected |-> TRUE,
          response |-> ErrorResponse(400, "MISSING_TEXT",
                                     "No se proporciono texto para analizar")]
    ELSE IF Len(body.text) > MaxTextLen
    THEN [text |-> <<>>, rejected |-> TRUE,
          response |-> ErrorResponse(400, "TEXT_TOO_LONG",
                                     "El texto excede el limite de 5000 caracteres")]
    ELSE [text     |-> IF PreprocessOf(body) THEN clean_text(body.text)
                       ELSE body.text,
          rejected |-> FALSE,
          response |-> NoResponse]

----------------------------------------------------------------------------
(* What the environment supplies *)

OK_TEXT == <<"o", "k">>
BLANK_TEXT == <<" ", "\n">>
MENTION_TEXT == <<"@", "b">>
TOO_LONG_TEXT == [i \in 1..(MaxTextLen + 1) |-> "a"]

NoBody == [text |-> <<>>, preprocess |-> TRUE, has_text |-> FALSE]

\* the JSON bodies posted: no text, an empty text, a blank text, a text that
\* is cleaned to nothing, a plain text, a text over the cap
Bodies ==
    {NoBody} \cup
    [text : {<<>>, BLANK_TEXT, OK_TEXT}, preprocess : BOOLEAN, has_text : {TRUE}] \cup
    {[text |-> MENTION_TEXT, preprocess |-> TRUE, has_text |-> TRUE],
     [text |-> TOO_LONG_TEXT, preprocess |-> TRUE, has_text |-> TRUE]}

ONE_STAR == <<"1", " ", "s", "t", "a", "r">>
THREE_STARS == <<"3", " ", "s", "t", "a", "r", "s">>
FIVE_STARS == <<"5", " ", "s", "t", "a", "r", "s">>

\* what the classifier does on a call
ModelOutcomes ==
    {ModelRaises("CUDA out of memory", 3),
     ModelReturns(ONE_STAR, 61234, 41),
     ModelReturns(THREE_STARS, 50000, 40),
     ModelReturns(FIVE_STARS, 98765, 38)}

\* the classifier when analyze does not get as far as calling it
ModelIdle == ModelReturns(<<>>, 0, 0)

\* the outcomes there are to draw for a call of analyze(text): the
\* classifier is reached only past the check of line 51
ModelReached(text) == IF EmptyText(text) THEN {ModelIdle} ELSE ModelOutcomes

----------------------------------------------------------------------------
(* The service: one DataManager, calls served one at a time *)

NoCall ==
    [io |-> "none", limit |-> 0, raised |-> FALSE,
     stats |-> NoResult, body |-> NoBody, called_model |-> FALSE,
     response |-> NoResponse, op |-> "init", text_processed |-> <<>>,
     model_raised |-> FALSE, appended |-> FALSE, recent |-> <<>>,
     saved_stats |-> FALSE]

NoRequests == <<>>

\* DataManager(): the history is loaded from the file, absent or unparseable
\* at the first start
Init ==
    /\ history_file \in {AbsentFile, CorruptFile}
    /\ history = _load_history(history_file)
    /\ stats_file = AbsentFile
    /\ clock = 0
    /\ last = NoCall
    /\ req = NoRequests

\* what a call of analyze_text that appended nothing leaves behind
Answered(body, text_processed, response, called_model) ==
    /\ last' = [NoCall EXCEPT
                  !.op = "analyze", !.body = body,
                  !.text_processed = text_processed, !.response = response,
                  !.called_model = called_model]
    /\ UNCHANGED <<history, history_file, stats_file, clock, req>>

\* POST /api/analyze: analyze_text.  The classifier's outcome and the
\* outcome of the history write are drawn where the handler reaches them.
AnalyzeText ==
    \E body \in Bodies : \E pre \in {Preprocessed(body)} :
      IF pre.rejected
      THEN Answered(body, <<>>, pre.response, FALSE)
      ELSE \E model \in ModelReached(pre.text) : \E analysis \in {analyze(pre.text, model)} :
        IF analysis.raised
        THEN Answered(body, pre.text,
                      ErrorResponse(500, "ANALYSIS_ERROR", analysis.error),
                      analysis.called_model)
        ELSE /\ clock < MaxClock
             /\ \E io \in WriteOutcomes :
                \E saved \in {save_analysis(history, history_file, analysis.value,
                                            clock + 1, io)} :
                  /\ history' = saved.history
                  /\ history_file' = saved.file
                  /\ clock' = clock + 1
                  /\ last' = [NoCall EXCEPT
                                !.op = "analyze", !.body = body,
                                !.text_processed = pre.text,
                                !.called_model = TRUE,
                                !.model_raised = model.raises,
                                !.io = io, !.appended = TRUE,
                                !.response = SuccessResponse(saved.result)]
                  /\ UNCHANGED <<stats_file, req>>

\* get_stats with an aggregation that keeps only the records it counted:
\* the history is replaced by the valid results
GetStatsDroppingErrors ==
    \E out \in {get_statistics(history)} :
      \E io \in (IF out.saves THEN WriteOutcomes ELSE {"none"}) :
        /\ history' = SelectSeq(history, HasSentiment)
        /\ stats_file' = IF out.saves
                         THEN _save_statistics(stats_file, out.stats, io)
                         ELSE stats_file
        /\ last' = [NoCall EXCEPT
                      !.op = "stats", !.stats = out.stats,
                      !.saved_stats = out.saves, !.io = io]
        /\ UNCHANGED <<history_file, clock, req>>

\* GET /api/stats: get_stats
GetStats ==
    \E out \in {get_statistics(history)} :
      \E io \in (IF out.saves THEN WriteOutcomes ELSE {"none"}) :
        /\ stats_file' = IF out.saves
                         THEN _save_statistics(stats_file, out.stats, io)
                         ELSE stats_file
        /\ last' = [NoCall EXCEPT
                      !.op = "stats", !.stats = out.stats,
                      !.saved_stats = out.saves, !.io = io]
        /\ UNCHANGED <<history, history_file, clock, req>>

\* data_manager.get_recent_analyses(limit)
GetRecent ==
    \E limit \in 0..MaxLimit :
      /\ last' = [NoCall EXCEPT
                    !.op = "recent", !.limit = limit,
                    !.recent = get_recent_analyses(history, limit)]
      /\ UNCHANGED <<history, history_file, stats_file, clock, req>>

\* data_manager.clear_history(); os.remove is reached when the file exists
ClearHistory ==
    \E io \in (IF Exists(history_file) THEN RemoveOutcomes ELSE {"none"}) :
      \E out \in {clear_history(history, history_file, io)} :
        /\ history' = out.history
        /\ history_file' = out.file
        /\ last' = [NoCall EXCEPT
                      !.op = "clear", !.raised = out.raised, !.io = io]
        /\ UNCHANGED <<stats_file, clock, req>>

\* the process is started again: DataManager() loads the history file
Restart ==
    /\ history' = _load_history(history_file)
    /\ last' = [NoCall EXCEPT !.op = "load"]
    /\ UNCHANGED <<history_file, stats_file, clock, req>>

Next == AnalyzeText \/ GetStats \/ GetRecent \/ ClearHistory \/ Restart

Spec == Init /\ [][Next]_vars

----------------------------------------------------------------------------
(* Retention: save_analysis called over and over on one DataManager, from  *)
(* the empty history or a history close to the cap, until the cap is       *)
(* passed                                                                  *)

\* the record handed to save_analysis
CapResult == analyze(OK_TEXT, ModelReturns(FIVE_STARS, 98765, 38)).value

\* the history an earlier run left in the file, one record short of the cap
NearFullHistory ==
    [i \in 1..(HistoryCap - 1) |-> DictSet(CapResult, "timestamp", i)]

\* DataManager(): no history file yet, or the file of an earlier run
InitCap ==
    /\ history_file \in {AbsentFile,
                         [state |-> "written", data |-> json_dump(NearFullHistory)]}
    /\ history = _load_history(history_file)
    /\ stats_file = AbsentFile
    /\ clock = Len(history)
    /\ last = NoCall
    /\ req = NoRequests

\* data_manager.save_analysis(result)
SaveAnalysis ==
    /\ clock < HistoryCap + MaxOverCap
    /\ \E io \in {"ok", "write_fail"} :
       \E saved \in {save_analysis(history, history_file, CapResult, clock + 1, io)} :
         /\ history' = saved.history
         /\ history_file' = saved.file
         /\ clock' = clock + 1
         /\ last' = [NoCall EXCEPT !.op = "save", !.io = io, !.appended = TRUE]
         /\ UNCHANGED <<stats_file, req>>

NextCap == SaveAnalysis

SpecCap == InitCap /\ [][NextCap]_vars

----------------------------------------------------------------------------
(* Concurrency: app.run serves each request in a thread of its own, and    *)
(* save_analysis takes no lock.  A request is at one of the steps of       *)
(* save_analysis; a thread switch can come between any two of them.        *)

RequestIds == 1..NumRequests

\* the record each request appends, before it is stamped
RequestResult == analyze(OK_TEXT, ModelReturns(FIVE_STARS, 98765, 38)).value

\* a full history, as an earlier run of the service left it in the file
FullHistory == [i \in 1..HistoryCap |-> DictSet(RequestResult, "timestamp", i)]

NewRequest == [result |-> NoResult, kept |-> <<>>, pc |-> "stamp", buf |-> <<>>]

InitConc ==
    /\ history_file \in {AbsentFile,
                         [state |-> "written", data |-> json_dump(FullHistory)]}
    /\ history = _load_history(history_file)
    /\ stats_file = AbsentFile
    /\ clock = Len(history)
    /\ last = NoCall
    /\ req = [t \in RequestIds |-> NewRequest]

At(t, pc) == req[t].pc = pc

\* line 45: result['timestamp'] = datetime.now().isoformat()
Stamp(t) ==
    /\ At(t, "stamp")
    /\ clock' = clock + 1
    /\ req' = [req EXCEPT ![t].pc = "append",
                          ![t].result = DictSet(RequestResult, "timestamp", clock + 1)]
    /\ UNCHANGED <<history, history_file, stats_file, last>>

\* line 48: self.history.append(result)
AppendResult(t) ==
    /\ At(t, "append")
    /\ history' = Append(history, req[t].result)
    /\ req' = [req EXCEPT ![t].pc = "check"]
    /\ UNCHANGED <<history_file, stats_file, clock, last>>

\* line 51: if len(self.history) > 1000
CheckLength(t) ==
    /\ At(t, "check")
    /\ req' = [req EXCEPT ![t].pc = IF Len(history) > HistoryCap
                                    THEN "slice" ELSE "open"]
    /\ UNCHANGED <<history, history_file, stats_file, clock, last>>

\* line 52, right-hand side: self.history[-1000:]
Slice(t) ==
    /\ At(t, "slice")
    /\ req' = [req EXCEPT ![t].pc = "assign",
                          ![t].kept = PySliceFrom(history, -HistoryCap)]
    /\ UNCHANGED <<history, history_file, stats_file, clock, last>>

\* line 52, the store: self.history = ...
AssignKept(t) ==
    /\ At(t, "assign")
    /\ history' = req[t].kept
    /\ req' = [req EXCEPT ![t].pc = "open", ![t].kept = <<>>]
    /\ UNCHANGED <<history_file, stats_file, clock, last>>

\* line 56: open(self.history_file, 'w') truncates the file
OpenFile(t) ==
    /\ At(t, "open")
    /\ history_file' = CorruptFile
    /\ req' = [req EXCEPT ![t].pc = "dump"]
    /\ UNCHANGED <<history, stats_file, clock, last>>

\* line 57: json.dump(self.history, f) fills f's buffer
Dump(t) ==
    /\ At(t, "dump")
    /\ req' = [req EXCEPT ![t].pc = "close", ![t].buf = json_dump(history)]
    /\ UNCHANGED <<history, history_file, stats_file, clock, last>>

\* leaving the with block: the buffer is written from offset 0.  Over a
\* longer text that another thread wrote since the open, the tail of that
\* text stays behind it and the file no longer parses; the requests' records
\* have the same size, so the longer text is the one of more records.
CloseFile(t) ==
    /\ At(t, "close")
    /\ history_file' =
         IF history_file.state = "written"
            /\ Len(history_file.data) > Len(req[t].buf)
         THEN CorruptFile
         ELSE [state |-> "written", data |-> req[t].buf]
    /\ req' = [req EXCEPT ![t].pc = "done", ![t].buf = <<>>]
    /\ UNCHANGED <<history, stats_file, clock, last>>

NextConc ==
    \E t \in RequestIds :
      \/ Stamp(t)
      \/ AppendResult(t)
      \/ CheckLength(t)
      \/ Slice(t)
      \/ AssignKept(t)
      \/ OpenFile(t)
      \/ Dump(t)
      \/ CloseFile(t)

SpecConc == InitConc /\ [][NextConc]_vars

----------------------------------------------------------------------------
(* Properties *)

Min(a, b) == IF a < b THEN a ELSE b
SeqRange(list) == {list[i] : i \in DOMAIN list}
Sentiments == {"POSITIVE", "NEGATIVE", "NEUTRAL"}

\* C1: after any number of save_analysis calls, from the empty history or
\* from one of fewer than 1000 records, the history holds at most 1000
\* records, and they are the latest ones in the order they were appended:
\* the record at place i is the one stamped clock - Len(history) + i, so the
\* newest is last and what was dropped is the oldest; after 1001 appends
\* the records are those stamped 2..1001.
C1_RetainsNewest ==
    /\ Len(history) = Min(clock, HistoryCap)
    /\ \A i \in 1..Len(history) :
         history[i].timestamp = clock - Len(history) + i
    /\ clock = HistoryCap + 1 =>
         /\ history[1].timestamp = 2
         /\ history[HistoryCap].timestamp = HistoryCap + 1

\* the 1001st record was appended and the first record is gone
C1_Witness ==
    /\ clock = HistoryCap + 1
    /\ last.op = "save"
    /\ Len(history) = HistoryCap
    /\ history[1].timestamp = 2

\* C2: once every concurrent request has completed, each record a request
\* appended (none is old enough to be evicted) is in the in-memory history
\* and in the history that the persisted file loads to.
C2_NoLostUpdate ==
    (\A t \in RequestIds : At(t, "done")) =>
        \A t \in RequestIds :
          /\ req[t].result \in SeqRange(history)
          /\ req[t].result \in SeqRange(_load_history(history_file))

\* C3: get_recent_analyses(limit) answers the last min(limit, length)
\* records of the history, in order, for every limit from 0 up.
C3_RecentIsLastMin ==
    last.op = "recent" =>
        LET n == Min(last.limit, Len(history))
        IN  last.recent = SubSeq(history, Len(history) - n + 1, Len(history))

\* a text of nothing but whitespace
IsBlank(text) == \A i \in DOMAIN text : IsSpace(text[i])

\* a call of analyze_text with a text within the cap that is blank as
\* submitted, or blank once cleaned when preprocess is on: text_processed,
\* the text handed to the analyzer, is the one or the other
BlankSubmission(call) ==
    /\ call.op = "analyze"
    /\ call.body.has_text
    /\ Len(call.body.text) <= MaxTextLen
    /\ IsBlank(call.text_processed)

\* C4: a submission whose text is blank, as submitted or once cleaned, is
\* answered with the hard error (status 500, no success, no result) without
\* the classifier being called, and the history and its file stay as they
\* were.
C4_BlankRejected ==
    [][BlankSubmission(last') =>
          /\ history' = history
          /\ history_file' = history_file
          /\ ~last'.called_model
          /\ ~last'.appended
          /\ last'.response.status = 500
          /\ last'.response.code = "ANALYSIS_ERROR"
          /\ ~last'.response.success
          /\ last'.response.result = NoResult]_vars

\* a text cleaned to nothing was rejected while the history held a record
C4_Witness ==
    /\ last.op = "analyze"
    /\ last.body.text = MENTION_TEXT
    /\ last.response.status = 500
    /\ Len(history) = 1

\* C5: when the classifier raises on a text that is not blank, the call is
\* answered with success and a record that holds error, text_original and
\* processing_time and no sentiment, and that record is appended to the
\* history once (it is the one new record, stamped by the store).
C5_ClassifierFailureStored ==
    [][(last'.op = "analyze" /\ last'.model_raised) =>
          LET result == last'.response.result
          IN  /\ last'.response.status = 200
              /\ last'.response.success
              /\ {"error", "text_original", "processing_time"} \subseteq DOMAIN result
              /\ "sentiment" \notin DOMAIN result
              /\ result.error # ""
              /\ ~IsBlank(result.text_original)
              /\ history' = Append(history, result)]_vars

\* a classifier failure was stored after another record
C5_Witness ==
    /\ last.op = "analyze"
    /\ last.model_raised
    /\ last.appended
    /\ Len(history) = 2
    /\ "error" \in DOMAIN history[2]

\* C6: a failed write in save_analysis and a failed removal in
\* clear_history are swallowed: the call returns normally, the new record
\* is still the last one of the history, the cleared history is still empty.
C6_PersistenceFailureSwallowed ==
    /\ (last.op = "analyze" /\ last.io \in {"open_fail", "write_fail"}) =>
          /\ last.response.status = 200
          /\ history # <<>>
          /\ history[Len(history)] = last.response.result
    /\ (last.op = "clear" /\ last.io = "fail") =>
          /\ history = <<>>
          /\ ~last.raised

\* C7: clear_history, whether or not the file existed, does not raise and
\* leaves the history empty and the file absent; a load then gives the
\* empty history and the statistics report zero analyses.
C7_ClearLeavesNothing ==
    last.op = "clear" =>
        /\ ~last.raised
        /\ history = <<>>
        /\ ~Exists(history_file)
        /\ _load_history(history_file) = <<>>
        /\ get_statistics(history).stats.total_analyzed = 0

\* C8: every record of the history is a sentiment record (sentiment one of
\* the three, no error) or an error record (error, no sentiment), and
\* carries the timestamp the store stamped it with: a time no later than
\* now, later than that of the record before it.
C8_RecordShapes ==
    \A i \in 1..Len(history) :
      LET r == history[i]
      IN  /\ \/ /\ "sentiment" \in DOMAIN r
                /\ r.sentiment \in Sentiments
                /\ "error" \notin DOMAIN r
             \/ /\ "error" \in DOMAIN r
                /\ "sentiment" \notin DOMAIN r
          /\ "timestamp" \in DOMAIN r
          /\ r.timestamp \in 1..clock
          /\ i > 1 => history[i - 1].timestamp < r.timestamp

\* the history holds a sentiment record and an error record
C8_Witness ==
    /\ Len(history) = 2
    /\ "sentiment" \in DOMAIN history[1]
    /\ "error" \in DOMAIN history[2]

\* C9: after an append whose write succeeded and after a clear whose
\* removal did not fail, loading the file gives the in-memory history
\* (absent file for the empty one); a load from an absent or unparseable
\* file gives the empty history.
C9_FileInStep ==
    /\ (\/ last.op = "analyze" /\ last.appended /\ last.io = "ok"
        \/ last.op = "clear" /\ last.io # "fail") =>
          /\ _load_history(history_file) = history
          /\ Len(_load_history(history_file)) = Len(history)
          /\ history = <<>> <=> ~Exists(history_file)
    /\ (last.op = "load" /\ history_file.state \in {"absent", "corrupt"}) =>
          history = <<>>

\* two records were appended and written
C9_Witness ==
    /\ last.op = "analyze"
    /\ last.io = "ok"
    /\ Len(history) = 2
    /\ history_file.state = "written"
    /\ Len(history_file.data) = 2

\* the places of the history that hold a sentiment record
ValidPlaces == {i \in 1..Len(history) : "sentiment" \in DOMAIN history[i]}
PlacesOf(sentiment) == {i \in ValidPlaces : history[i].sentiment = sentiment}
LastValidPlace == CHOOSE i \in ValidPlaces : \A j \in ValidPlaces : j <= i

\* C10: the statistics of a history: total_analyzed is its length,
\* valid_results the number of sentiment records, errors the rest; with a
\* sentiment record the three counts are those of the sentiments and
\* last_analysis is the timestamp of the latest sentiment record; without
\* one only the three totals are given; for the empty history only
\* total_analyzed = 0 (and the message).
C10_Statistics ==
    last.op = "stats" =>
        LET stats == last.stats
            valid == Cardinality(ValidPlaces)
        IN  /\ stats.total_analyzed = Len(history)
            /\ history = <<>> => DOMAIN stats = {"total_analyzed", "message"}
            /\ (history # <<>> /\ valid = 0) =>
                  /\ DOMAIN stats = {"total_analyzed", "valid_results", "errors"}
                  /\ stats.valid_results = 0
                  /\ stats.errors = Len(history)
            /\ valid > 0 =>
                  /\ stats.valid_results = valid
                  /\ stats.errors = Len(history) - valid
                  /\ stats.sentiments.positive = Cardinality(PlacesOf("POSITIVE"))
                  /\ stats.sentiments.negative = Cardinality(PlacesOf("NEGATIVE"))
                  /\ stats.sentiments.neutral = Cardinality(PlacesOf("NEUTRAL"))
                  /\ stats.sentiments.positive + stats.sentiments.negative
                       + stats.sentiments.neutral = valid
                  /\ stats.last_analysis = history[LastValidPlace].timestamp

\* statistics of a sentiment record followed by an error record
C10_Witness ==
    /\ last.op = "stats"
    /\ Len(history) = 2
    /\ ValidPlaces = {1}
    /\ last.stats.errors = 1
    /\ last.stats.last_analysis = history[1].timestamp

(***************************************************************************)
(* C11  The statistics file after get_statistics                          *)
(***************************************************************************)

\* C11: after every call of get_statistics that met no I/O failure (the
\* write succeeded, or the call attempted no write at all) the statistics
\* file holds exactly the snapshot the call returned.
C11_StatsFileIsSnapshot ==
    (last.op = "stats" /\ last.io \in {"ok", "none"}) =>
        stats_file = [state |-> "written", data |-> <<JsonObject(last.stats)>>]

(***************************************************************************)
(* C12  get_statistics is a pure reduction                                 *)
(***************************************************************************)

\* C12: a call of get_statistics leaves the history in memory and the
\* history file as they were, and a call that directly follows another call
\* of get_statistics (nothing appended or cleared in between) returns the
\* same snapshot, last_analysis included.
C12_PureReduction ==
    [][last'.op = "stats" =>
          /\ history' = history
          /\ history_file' = history_file
          /\ last.op = "stats" => last'.stats = last.stats]_vars

\* a call over a history with a sentiment record and an error record that
\* could not open the statistics file, which still holds the identical
\* snapshot written by an earlier call
C12_Witness ==
    /\ last.op = "stats"
    /\ last.io = "open_fail"
    /\ \E i \in DOMAIN history : HasSentiment(history[i])
    /\ \E i \in DOMAIN history : ~HasSentiment(history[i])
    /\ HasKey(last.stats, "last_analysis")
    /\ stats_file = [state |-> "written", data |-> <<JsonObject(last.stats)>>]

----------------------------------------------------------------------------
(* Result normalization on its own: _process_result applied to one raw      *)
(* result of the model.  req is the raw result, last the outcome.           *)

\* spellings of the word of a star label, and the label "<n> <word>"
StarWords ==
    {<<"s", "t", "a", "r">>, <<"s", "t", "a", "r", "s">>,
     <<"S", "T", "A", "R", "S">>, <<"S", "t", "a", "r", "s">>}
StarLabel(n, word) == <<Digits[n + 1], " ">> \o word
StarLabels == {StarLabel(n, word) : n \in 1..5, word \in StarWords}

\* labels of a binary model, in several spellings, and labels that are
\* neither
PositiveSpellings ==
    {POSITIVE, Lower(POSITIVE), <<"P", "o", "s", "i", "t", "i", "v", "e">>}
BinaryLabels ==
    PositiveSpellings \cup
    {LABEL_1, Lower(LABEL_1),
     <<"L", "A", "B", "E", "L", "_", "0">>,
     <<"N", "E", "G", "A", "T", "I", "V", "E">>,
     <<"n", "e", "g", "a", "t", "i", "v", "e">>,
     <<"N", "E", "U", "T", "R", "A", "L">>,
     <<>>}

\* scores in units of 1e-5: both ends, both sides of 0.9, and values whose
\* fifth decimal is not zero
Scores == {0, 4, 50000, 61234, 90000, 90001, 95000, 98762, 100000}

RawResults == [label : StarLabels \cup BinaryLabels, score : Scores]

InitNormalizer ==
    /\ history = <<>>
    /\ history_file = AbsentFile
    /\ stats_file = AbsentFile
    /\ clock = 0
    /\ req \in RawResults
    /\ last = NoCall

\* self._process_result(result)
ProcessResult ==
    /\ last.op = "init"
    /\ last' = [result |-> _process_result(req.label, req.score),
                op     |-> "_process_result"]
    /\ UNCHANGED <<history, history_file, stats_file, clock, req>>

NextNormalizer == ProcessResult

SpecNormalizer == InitNormalizer /\ [][NextNormalizer]_vars

(***************************************************************************)
(* C13  Star labels                                                        *)
(***************************************************************************)

\* the sentiment a star rating stands for
StarSentiment(n) ==
    IF n <= 2 THEN "NEGATIVE" ELSE IF n = 3 THEN "NEUTRAL" ELSE "POSITIVE"

\* the signed score of a sentiment, in units of 1e-5
SignedScore(sentiment, score) ==
    CASE sentiment = "NEGATIVE" -> 0 - score
      [] sentiment = "NEUTRAL"  -> 0
      [] sentiment = "POSITIVE" -> score

\* rounded (units of 1e-4) is x (units of 1e-5) rounded to 4 decimals: it
\* is at most half a unit of the fourth decimal away from x
IsRoundedTo4(rounded, x) ==
    /\ 10 * rounded - x <= 5
    /\ x - 10 * rounded <= 5

\* C13 as stated: for a label "<n> star(s)" in any letter case with n in 1..5
\* _process_result returns stars = n, the sentiment of n, sentiment_score
\* equal to -score, 0 or score, and confidence equal to the score.
C13_StarMappingExact ==
    (last.op = "_process_result" /\ req.label \in StarLabels) =>
        \A n \in 1..5 : \A w \in StarWords :
            req.label = StarLabel(n, w) =>
                /\ ~last.result.raised
                /\ last.result.value.stars = n
                /\ last.result.value.sentiment = StarSentiment(n)
                /\ 10 * last.result.value.sentiment_score
                     = SignedScore(StarSentiment(n), req.score)
                /\ 10 * last.result.value.confidence = req.score

\* C13, amended: for a label "<n> star(s)" in any letter case with n in 1..5
\* _process_result returns stars = n and the sentiment of n; sentiment_score
\* is -score, 0 or score rounded to 4 decimals and confidence is the score
\* rounded to 4 decimals; sentiment_score lies in [-1, 1], is exactly 0 for
\* NEUTRAL, never positive for NEGATIVE and never negative for POSITIVE.
C13_StarMapping ==
    (last.op = "_process_result" /\ req.label \in StarLabels) =>
        \A n \in 1..5 : \A w \in StarWords :
            req.label = StarLabel(n, w) =>
                LET out == last.result.value
                IN  /\ ~last.result.raised
                    /\ out.stars = n
                    /\ out.sentiment = StarSentiment(n)
                    /\ IsRoundedTo4(out.sentiment_score,
                                    SignedScore(StarSentiment(n), req.score))
                    /\ IsRoundedTo4(out.confidence, req.score)
                    /\ out.sentiment_score >= -10000
                    /\ out.sentiment_score <= 10000
                    /\ n = 3 => out.sentiment_score = 0
                    /\ n <= 2 => out.sentiment_score <= 0
                    /\ n >= 4 => out.sentiment_score >= 0

\* "2 Stars" with score 0.61234: NEGATIVE, two stars, -0.6123 and 0.6123
C13_Witness ==
    /\ last.op = "_process_result"
    /\ req.label = StarLabel(2, <<"S", "t", "a", "r", "s">>)
    /\ req.score = 61234
    /\ last.result.value.stars = 2
    /\ last.result.value.sentiment = "NEGATIVE"
    /\ last.result.value.sentiment_score = -6123
    /\ last.result.value.confidence = 6123

(***************************************************************************)
(* C14  Binary labels                                                      *)
(***************************************************************************)

\* the stars of a binary label: the lower rating of the pair above 0.9
BinaryStars(sentiment, score) ==
    IF sentiment = "POSITIVE"
    THEN (IF score > 90000 THEN 4 ELSE 5)
    ELSE (IF score > 90000 THEN 2 ELSE 1)

\* the sentiment of a label without "star": POSITIVE for a spelling of
\* POSITIVE in any letter case and for the literal LABEL_1
BinarySentiment(label) ==
    IF label \in PositiveSpellings \/ label = LABEL_1
    THEN "POSITIVE" ELSE "NEGATIVE"

\* C14 as stated: for a label that does not mention "star" the sentiment is
\* POSITIVE exactly for POSITIVE in any letter case and for LABEL_1, else
\* NEGATIVE; stars are 4 or 2 when score > 0.9 and 5 or 1 otherwise (0.9
\* itself included); sentiment_score equals score or -score.
C14_BinaryMappingExact ==
    (last.op = "_process_result" /\ req.label \in BinaryLabels) =>
        /\ ~last.result.raised
        /\ last.result.value.sentiment = BinarySentiment(req.label)
        /\ last.result.value.stars
             = BinaryStars(BinarySentiment(req.label), req.score)
        /\ 10 * last.result.value.sentiment_score
             = SignedScore(BinarySentiment(req.label), req.score)

\* C14, amended: as stated, except that sentiment_score is score or -score
\* rounded to 4 decimals.
C14_BinaryMapping ==
    (last.op = "_process_result" /\ req.label \in BinaryLabels) =>
        /\ ~last.result.raised
        /\ last.result.value.sentiment = BinarySentiment(req.label)
        /\ last.result.value.sentiment # "NEUTRAL"
        /\ last.result.value.stars
             = BinaryStars(BinarySentiment(req.label), req.score)
        /\ IsRoundedTo4(last.result.value.sentiment_score,
                        SignedScore(BinarySentiment(req.label), req.score))

\* "positive" with a score of exactly 0.9: POSITIVE with 5 stars
C14_Witness ==
    /\ last.op = "_process_result"
    /\ req.label = Lower(POSITIVE)
    /\ req.score = 90000
    /\ last.result.value.sentiment = "POSITIVE"
    /\ last.result.value.stars = 5
    /\ last.result.value.sentiment_score = 9000

----------------------------------------------------------------------------
(* The batch: SentimentAnalyzer.analyze_batch and POST /api/analyze-batch  *)

\* text[:100] of the record of a failed item
ErrorTextLen == 100
\* len(texts) > 50
MaxBatchTexts == 50
\* the longest list of texts drawn for a batch (the list over the limit of
\* 50 apart)
MaxBatchLen == 2

ELLIPSIS == <<".", ".", ".">>

\* an analyze_batch that gives up at the first item whose analyze raises
analyze_batch_aborting(texts, models) ==
    LET Raised(i) == analyze(texts[i], models[i]).raised
        stop == IF \E i \in DOMAIN texts : Raised(i)
                THEN (CHOOSE i \in DOMAIN texts :
                        Raised(i) /\ \A j \in 1..(i - 1) : ~Raised(j)) - 1
                ELSE Len(texts)
    IN  [i \in 1..stop |->
           analyze(texts[i], models[i]).value @@ [index |-> i - 1]]

\* analyze_batch(texts); models[i] is what the classifier does for item i.
\* enumerate counts from 0.
analyze_batch(texts, models) ==
    [i \in 1..Len(texts) |->
       LET text   == texts[i]
           result == analyze(text, models[i])
       IN  IF result.raised
           THEN [error         |-> result.error,
                 text_original |-> IF Len(text) > ErrorTextLen
                                   THEN PySliceTo(text, ErrorTextLen) \o ELLIPSIS
                                   ELSE text,
                 index         |-> i - 1]
           ELSE result.value @@ [index |-> i - 1]]

\* {}
EmptyDict == <<>>

\* calculate_batch_stats(results)
calculate_batch_stats(results) ==
    LET valid_results == SelectSeq(results, HasSentiment)
        n == Len(valid_results)
    IN  IF valid_results = <<>>
        THEN EmptyDict
        ELSE [errors     |-> Len(results) - n,
              sentiments |->
                [positive |-> CountSentiment(valid_results, "POSITIVE"),
                 negative |-> CountSentiment(valid_results, "NEGATIVE"),
                 neutral  |-> CountSentiment(valid_results, "NEUTRAL")],
              percentages |->
                [positive |-> RoundDiv(10000 * CountSentiment(valid_results, "POSITIVE"), n),
                 negative |-> RoundDiv(10000 * CountSentiment(valid_results, "NEGATIVE"), n),
                 neutral  |-> RoundDiv(10000 * CountSentiment(valid_results, "NEUTRAL"), n)],
              average_confidence |-> Average(valid_results, "confidence", 1),
              valid      |-> n,
              total      |-> Len(results)]

\* the JSON answer of a batch that was analysed
BatchResponse(results, total_texts, preprocess) ==
    [error |-> "", status |-> 200, code |-> "", success |-> TRUE,
     results    |-> results,
     statistics |-> calculate_batch_stats(results),
     metadata   |-> [total_texts |-> total_texts, preprocessed |-> preprocess,
                     api_version |-> "1.0.0"]]

\* the lists of at most n texts
RECURSIVE TextLists(_)
TextLists(n) ==
    IF n = 0 THEN {<<>>}
    ELSE TextLists(n - 1) \cup
         {Append(list, text) : list \in TextLists(n - 1),
                               text \in {OK_TEXT, BLANK_TEXT}}

NoBatchBody == [preprocess |-> TRUE, texts |-> <<>>, has_texts |-> FALSE]

\* the JSON bodies posted to the batch endpoint: no texts, short lists with
\* and without preprocessing, a list of 51 texts
BatchBodies ==
    {NoBatchBody} \cup
    [preprocess : BOOLEAN, texts : TextLists(MaxBatchLen), has_texts : {TRUE}] \cup
    {[preprocess |-> TRUE, texts |-> [i \in 1..(MaxBatchTexts + 1) |-> OK_TEXT],
      has_texts |-> TRUE]}

\* what the classifier does for each text of a list
ModelsReached(texts) ==
    {models \in [DOMAIN texts -> ModelOutcomes \cup {ModelIdle}] :
        \A i \in DOMAIN texts : models[i] \in ModelReached(texts[i])}

\* what a call of the batch endpoint leaves behind: it writes no state of
\* the DataManager
BatchAnswered(response) ==
    /\ last' = [response |-> response, op |-> "batch"]
    /\ UNCHANGED <<history, history_file, stats_file, clock, req>>

\* POST /api/analyze-batch: analyze_batch of main.py.  With lists of strings
\* nothing inside the try raises, so the answer 500 of the except branch is
\* not drawn.
AnalyzeBatch ==
    \E body \in BatchBodies :
      IF ~body.has_texts
      THEN BatchAnswered(ErrorResponse(400, "MISSING_TEXTS",
                                       "No se proporcionaron textos"))
      ELSE IF Len(body.texts) > MaxBatchTexts
      THEN BatchAnswered(ErrorResponse(400, "TOO_MANY_TEXTS",
                                       "Maximo 50 textos por solicitud"))
      ELSE \E texts_processed \in
                {IF body.preprocess
                 THEN [i \in DOMAIN body.texts |-> clean_text(body.texts[i])]
                 ELSE body.texts} :
             \E models \in ModelsReached(texts_processed) :
               BatchAnswered(BatchResponse(
                   analyze_batch(texts_processed, models),
                   Len(body.texts), body.preprocess))

\* the two endpoints that analyse texts, on one DataManager
NextBatch == AnalyzeText \/ AnalyzeBatch

SpecBatch == Init /\ [][NextBatch]_vars

----------------------------------------------------------------------------
(* The analyzer on its own: analyze on one text and analyze_batch on a     *)
(* list.  req is the list of items, each a text and what the classifier    *)
(* does when called for it; last is the value returned.                    *)

\* a text longer than the 500 characters the classifier is given
LONG_TEXT == [i \in 1..(TruncateAt + 1) |-> "a"]
\* a blank text longer than the 100 characters an error record keeps
LONG_BLANK_TEXT == [i \in 1..(ErrorTextLen + 1) |-> " "]

\* labels that mention "star" and do not start with an integer
MalformedStarLabels ==
    {<<"f", "i", "v", "e", " ", "s", "t", "a", "r", "s">>,
     <<"s", "t", "a", "r", " ", "5">>,
     <<"4", ".", "5", " ", "s", "t", "a", "r", "s">>,
     <<"S", "T", "A", "R", "S">>}

\* what the classifier may do on a call, labels of a binary model and
\* malformed star labels included
AnalyzerOutcomes ==
    ModelOutcomes \cup
    {ModelReturns(label, 95000, 40) : label \in MalformedStarLabels} \cup
    {ModelReturns(POSITIVE, 95000, 40), ModelReturns(LABEL_1, 50000, 40),
     ModelReturns(<<"N", "E", "G", "A", "T", "I", "V", "E">>, 90000, 40)}

\* a text with what the classifier does for it: nothing when analyze
\* refuses the text before the call
AnalyzerItems ==
    UNION {{[text |-> text, model |-> model] :
              model \in IF EmptyText(text) THEN {ModelIdle} ELSE AnalyzerOutcomes} :
           text \in {<<>>, LONG_BLANK_TEXT, OK_TEXT, LONG_TEXT}}

\* the lists of at most n items
RECURSIVE ItemLists(_)
ItemLists(n) ==
    IF n = 0 THEN {<<>>}
    ELSE ItemLists(n - 1) \cup
         {Append(list, item) : list \in ItemLists(n - 1), item \in AnalyzerItems}

TextsOf(items) == [i \in DOMAIN items |-> items[i].text]
ModelsOf(items) == [i \in DOMAIN items |-> items[i].model]

InitAnalyzer ==
    /\ history = <<>>
    /\ history_file = AbsentFile
    /\ stats_file = AbsentFile
    /\ clock = 0
    /\ req \in ItemLists(MaxBatchLen)
    /\ last = NoCall

\* analyzer.analyze(text) on the text of a list of one
Analyze ==
    /\ last.op = "init"
    /\ Len(req) = 1
    /\ last' = [result |-> analyze(req[1].text, req[1].model),
                op     |-> "analyze_call"]
    /\ UNCHANGED <<history, history_file, stats_file, clock, req>>

\* analyzer.analyze_batch(texts)
AnalyzeList ==
    /\ last.op = "init"
    /\ last' = [op      |-> "analyze_batch",
                results |-> analyze_batch(TextsOf(req), ModelsOf(req))]
    /\ UNCHANGED <<history, history_file, stats_file, clock, req>>

NextAnalyzer == Analyze \/ AnalyzeList

SpecAnalyzer == InitAnalyzer /\ [][NextAnalyzer]_vars

----------------------------------------------------------------------------
(* The preprocessor on its own: clean_text and extract_features applied to *)
(* one text.  req is the text, last the value returned.                    *)

\* the longest text drawn over the alphabet
MaxTextChars == 4

\* the characters the patterns of clean_text look for, and a letter
Alphabet == {"@", "#", "<", ">", "b", " "}

\* the texts over the alphabet of at most n characters
RECURSIVE TextsUpTo(_)
TextsUpTo(n) ==
    IF n = 0 THEN {<<>>}
    ELSE TextsUpTo(n - 1) \cup
         {Append(text, c) : text \in TextsUpTo(n - 1), c \in Alphabet}

ALL_CAPS_TEXT == <<"A", "L", "L", " ", "C", "A", "P", "S", "!", "!", "!">>

\* texts for the features: upper and lower case, punctuation, repeated
\* characters, an emoji
FeatureTexts ==
    {ALL_CAPS_TEXT,
     <<"A", "B", "C", "D">>, <<"A", "B", "C">>, <<"A", "b", "c", "d">>,
     <<"a", "a", "a", "!", "?">>, <<"!", "!", "!", "!">>,
     <<"H", "I", " ", "U+1F60A">>,
     <<"s", "e", "e", " ">> \o HTTP \o SCHEME_SEP \o <<"x", " ", "@", "b", " ", "#", "g">>}

InitText ==
    /\ history = <<>>
    /\ history_file = AbsentFile
    /\ stats_file = AbsentFile
    /\ clock = 0
    /\ req \in TextsUpTo(MaxTextChars) \cup FeatureTexts
    /\ last = NoCall

\* text.count(c)
CountChar(text, c) == Cardinality({i \in DOMAIN text : text[i] = c})

\* len(text.split()): the runs of characters that are not whitespace
WordCount(text) ==
    Cardinality({i \in DOMAIN text :
                   ~IsSpace(text[i]) /\ (i = 1 \/ IsSpace(text[i - 1]))})

\* sum(1 for c in text if c.isupper())
UpperCount(text) == Cardinality({i \in DOMAIN text : text[i] \in UpperSet})

\* text.isupper(): a cased character, and no lower-case one
IsUpperStr(text) ==
    /\ \E i \in DOMAIN text : text[i] \in UpperSet
    /\ \A i \in DOMAIN text : text[i] \notin LowerSet

\* re.search(r'(.)\1{2,}', text): three equal characters in a row, none a
\* line break
HasRepeatedChars(text) ==
    \E i \in 1..(Len(text) - 2) :
        text[i] # "\n" /\ text[i + 1] = text[i] /\ text[i + 2] = text[i]

\* extract_features(text); a ratio is kept as numerator and denominator
extract_features(text) ==
    [length            |-> Len(text),
     word_count        |-> WordCount(text),
     exclamation_count |-> CountChar(text, "!"),
     question_count    |-> CountChar(text, "?"),
     uppercase_ratio   |-> [num |-> UpperCount(text),
                            den |-> IF Len(text) > 1 THEN Len(text) ELSE 1],
     has_emoji         |-> \E k \in DOMAIN emoji_dict :
                              Contains(text, emoji_dict[k].glyph),
     repeated_chars    |-> HasRepeatedChars(text),
     all_caps          |-> IsUpperStr(text) /\ Len(text) > 3]

\* preprocessor.clean_text(text)
CleanText ==
    /\ last.op = "init"
    /\ last' = [text |-> clean_text(req), op |-> "clean_text"]
    /\ UNCHANGED <<history, history_file, stats_file, clock, req>>

\* preprocessor.extract_features(text)
ExtractFeatures ==
    /\ last.op = "init"
    /\ last' = [op |-> "extract_features", features |-> extract_features(req)]
    /\ UNCHANGED <<history, history_file, stats_file, clock, req>>

NextText == CleanText \/ ExtractFeatures

SpecText == InitText /\ [][NextText]_vars

(***************************************************************************)
(* C15  Both endpoints append to the history                               *)
(***************************************************************************)

\* the results of a batch that got as far as the classifier: the records
\* with a sentiment and the records of a classifier failure, which carry a
\* processing time (the record of an item refused as empty does not)
Classified(results) ==
    SelectSeq(results, LAMBDA r : HasSentiment(r) \/ HasProcessingTime(r))

\* C15: a text of the single endpoint that reaches the classifier is
\* appended to the history as one record, and after a batch that was
\* accepted the history has grown by one record for every item that reached
\* the classifier (up to the cap of 1000).
C15_EveryEndpointAppends ==
    [][/\ (last'.op = "analyze" /\ last'.called_model) =>
             Len(history') = Min(Len(history) + 1, HistoryCap)
       /\ (last'.op = "batch" /\ last'.response.success) =>
             Len(history') =
                 Min(Len(history) + Len(Classified(last'.response.results)),
                     HistoryCap)]_vars

(***************************************************************************)
(* C16  analyze_batch isolates the failure of an item                      *)
(***************************************************************************)

\* an item that fails: its text is empty or blank, the classifier raises,
\* or the label it returns cannot be normalised
ItemFails(item) ==
    \/ IsBlank(item.text)
    \/ item.model.raises
    \/ item.model.label \in MalformedStarLabels

\* a record without its index
WithoutIndex(r) == [k \in DOMAIN r \ {"index"} |-> r[k]]

\* C16: analyze_batch on n texts returns n results in the order of the
\* texts, result i (counted from 0) with index = i; the result of a failing
\* item has an error and no sentiment, and every other item is classified
\* exactly as analyze classifies it alone, whatever happened to the items
\* before it.
C16_BatchIsolatesFailures ==
    last.op = "analyze_batch" =>
        /\ Len(last.results) = Len(req)
        /\ \A i \in DOMAIN req :
              /\ last.results[i].index = i - 1
              /\ ItemFails(req[i]) =>
                    /\ HasKey(last.results[i], "error")
                    /\ ~HasSentiment(last.results[i])
              /\ ~ItemFails(req[i]) =>
                    /\ HasSentiment(last.results[i])
                    /\ ~HasKey(last.results[i], "error")
                    /\ last.results[i].text_original = req[i].text
                    /\ WithoutIndex(last.results[i])
                         = analyze(req[i].text, req[i].model).value

\* a list whose first item is refused as empty and whose second item is
\* classified all the same
C16_Witness ==
    /\ last.op = "analyze_batch"
    /\ Len(req) = 2
    /\ req[1].text = <<>>
    /\ req[2].text = OK_TEXT
    /\ HasKey(last.results[1], "error")
    /\ last.results[1].index = 0
    /\ HasSentiment(last.results[2])
    /\ last.results[2].index = 1

(***************************************************************************)
(* C19  A failure of the normalization is an error record                  *)
(***************************************************************************)

\* the fields of a record with a sentiment
SentimentRecordFields ==
    {"sentiment", "confidence", "stars", "emoji", "sentiment_score",
     "raw_label", "text_original", "text_analyzed", "text_truncated",
     "text_length", "processing_time"}

\* C19: when the classifier returns, for a text that is not blank, a label
\* that mentions "star" and does not start with an integer, analyze does
\* not raise and returns a record with an error and without sentiment,
\* stars and confidence; and every record analyze returns with a sentiment
\* has all of confidence, stars, emoji, sentiment_score, raw_label,
\* text_original, text_analyzed, text_truncated, text_length and
\* processing_time.
C19_NormalizationFailureIsErrorRecord ==
    last.op = "analyze_call" =>
        /\ ( /\ ~IsBlank(req[1].text)
             /\ ~req[1].model.raises
             /\ req[1].model.label \in MalformedStarLabels ) =>
                /\ ~last.result.raised
                /\ HasKey(last.result.value, "error")
                /\ DOMAIN last.result.value
                     \cap {"sentiment", "stars", "confidence"} = {}
        /\ (~last.result.raised /\ HasSentiment(last.result.value)) =>
                SentimentRecordFields \subseteq DOMAIN last.result.value

\* the label "five stars" for a plain text: an error record that keeps the
\* text
C19_Witness ==
    /\ last.op = "analyze_call"
    /\ req[1].text = OK_TEXT
    /\ req[1].model.label = <<"f", "i", "v", "e", " ", "s", "t", "a", "r", "s">>
    /\ ~last.result.raised
    /\ HasKey(last.result.value, "error")
    /\ ~HasSentiment(last.result.value)
    /\ last.result.value.text_original = OK_TEXT

(***************************************************************************)
(* C17  What clean_text leaves in its output                               *)
(***************************************************************************)

\* a match of the URL pattern somewhere in s
HasUrl(s) == \E at \in DOMAIN s : UrlMatch(SubSeq(s, at, Len(s))) > 0
\* an "@" or a "#" followed by a word character
HasMention(s) == \E i \in 1..(Len(s) - 1) : s[i] = "@" /\ IsWord(s[i + 1])
HasHashtag(s) == \E i \in 1..(Len(s) - 1) : s[i] = "#" /\ IsWord(s[i + 1])
\* a "<" with a ">" somewhere after it
HasTag(s) == \E i \in DOMAIN s : \E j \in (i + 1)..Len(s) : s[i] = "<" /\ s[j] = ">"
\* a glyph of the emoji table
HasGlyph(s) == \E k \in DOMAIN emoji_dict : Contains(s, emoji_dict[k].glyph)
\* two whitespace characters in a row
HasSpaceRun(s) == \E i \in 1..(Len(s) - 1) : IsSpace(s[i]) /\ IsSpace(s[i + 1])
\* whitespace at either end
IsPadded(s) == s # <<>> /\ (IsSpace(s[1]) \/ IsSpace(s[Len(s)]))

\* C17: the output of clean_text holds no URL, no @mention, no <...> tag,
\* no #word marker, no glyph of the emoji table, no run of whitespace and
\* no whitespace at its ends, and it is empty for an empty input.
C17_CleanTextIsClean ==
    last.op = "clean_text" =>
        /\ ~HasUrl(last.text)
        /\ ~HasMention(last.text)
        /\ ~HasTag(last.text)
        /\ ~HasHashtag(last.text)
        /\ ~HasGlyph(last.text)
        /\ ~HasSpaceRun(last.text)
        /\ ~IsPadded(last.text)
        /\ req = <<>> => last.text = <<>>

(***************************************************************************)
(* C18  The features of a text in capitals                                 *)
(***************************************************************************)

\* C18: for a text longer than 3 characters whose letters are all upper
\* case, extract_features reports all_caps, counts the "!" characters, and
\* reports an uppercase_ratio of 1.0: as many upper-case characters as the
\* denominator of the ratio.
C18_AllCapsFeatures ==
    ( /\ last.op = "extract_features"
      /\ Len(req) > 3
      /\ \E i \in DOMAIN req : req[i] \in UpperSet
      /\ \A i \in DOMAIN req : req[i] \notin LowerSet ) =>
        /\ last.features.all_caps
        /\ last.features.exclamation_count = CountChar(req, "!")
        /\ last.features.uppercase_ratio.num = last.features.uppercase_ratio.den

====
